---- MODULE Spec2Model ----
(***************************************************************************)
(* Model of stenotype.py (Plover Practice): the text utilities, the two    *)
(* file loaders and the practice session of PloverPracticeApp.             *)
(*                                                                         *)
(* Texts are sequences of one-character strings, so that strip, split and  *)
(* normalize_text are computed character by character.  An optional value  *)
(* (Python None or a value) is None == <<>> or Some(v) == <<v>>.           *)
(*                                                                         *)
(* The app object is one variable per field.  Each method is an operator   *)
(* from the object's record to the record after the call, composed as the  *)
(* code composes the calls; each Tk event is one action that runs its      *)
(* handler to the end.  The label texts are written and never read, as is  *)
(* current_started_at; they are left out.                                  *)
(***************************************************************************)
EXTENDS Integers, Sequences, FiniteSets, TLC

VARIABLES
    word_bank_path,      \* None or Some(path)
    dict_path,           \* None or Some(path)
    word_bank,           \* list[str]
    steno_dict,          \* dict[str, list[str]] as a function
    source_mode,         \* "bank_random" or "quote_seq"
    quote_tokens,        \* list[str]
    quote_idx,           \* 0-based cursor into quote_tokens
    _pending_advance,    \* the guard flag
    current_word,        \* None or Some(text)
    session_started_at,  \* None or Some(time)
    total_attempts,
    correct_attempts,
    total_correct_chars,
    streak,
    best_streak,
    var_input,           \* the entry's StringVar
    now,                 \* time.time(), in whole ticks
    last_event,          \* history: <<the handler that ran last, its outcome>>
    occ_count,           \* history: correct attempts counted for the active Target occurrence
    quote_exhausted,     \* history: the quote ran to its end and was not restarted
    json_raw,            \* loader harness: the parsed JSON handed to load_dictionary_json
    json_out,            \* loader harness: what load_dictionary_json returned
    call_arg,            \* utility harness: the argument of the call
    call_ret             \* utility harness: what the call returned

vars == <<word_bank_path, dict_path, word_bank, steno_dict, source_mode,
          quote_tokens, quote_idx, _pending_advance, current_word,
          session_started_at, total_attempts, correct_attempts,
          total_correct_chars, streak, best_streak, var_input,
          now, last_event, occ_count, quote_exhausted, json_raw, json_out,
          call_arg, call_ret>>

\* The fields of the app object (what a handler can change), without history.
appvars == <<word_bank_path, dict_path, word_bank, steno_dict, source_mode,
             quote_tokens, quote_idx, _pending_advance, current_word,
             session_started_at, total_attempts, correct_attempts,
             total_correct_chars, streak, best_streak, var_input>>

-----------------------------------------------------------------------------
(* Bounds *)

MaxAttempts == 2
MaxTime == 2
MaxDictLen == 3
MaxLines == 3
MaxTextLen == 6

-----------------------------------------------------------------------------
(* Values *)

None == <<>>
Some(v) == <<v>>

max(a, b) == IF a >= b THEN a ELSE b

Range(seq) == {seq[i] : i \in DOMAIN seq}

Whitespace == {" ", "\t", "\n"}

isspace(c) == c \in Whitespace

-----------------------------------------------------------------------------
(* Text utilities *)

RECURSIVE lstrip(_)
lstrip(s) ==
    IF s # <<>> /\ isspace(Head(s)) THEN lstrip(Tail(s)) ELSE s

RECURSIVE rstrip(_)
rstrip(s) ==
    IF s # <<>> /\ isspace(s[Len(s)]) THEN rstrip(SubSeq(s, 1, Len(s) - 1)) ELSE s

\* str.strip()
strip(s) == rstrip(lstrip(s))

RECURSIVE split_from(_, _, _)
split_from(s, cur, acc) ==
    IF s = <<>> THEN (IF cur = <<>> THEN acc ELSE Append(acc, cur))
    ELSE IF isspace(Head(s))
         THEN split_from(Tail(s), <<>>, IF cur = <<>> THEN acc ELSE Append(acc, cur))
         ELSE split_from(Tail(s), Append(cur, Head(s)), acc)

\* str.split() with no separator: the maximal runs of non-whitespace
split(s) == split_from(s, <<>>, <<>>)

RECURSIVE join(_, _)
join(sep, ws) ==
    IF ws = <<>> THEN <<>>
    ELSE IF Len(ws) = 1 THEN ws[1]
    ELSE ws[1] \o sep \o join(sep, Tail(ws))

normalize_text(s) == join(<<" ">>, split(strip(s)))

RECURSIVE re_split_from(_, _, _, _)
re_split_from(s, cur, acc, in_run) ==
    IF s = <<>> THEN Append(acc, cur)
    ELSE IF isspace(Head(s))
         THEN IF in_run THEN re_split_from(Tail(s), cur, acc, TRUE)
              ELSE re_split_from(Tail(s), <<>>, Append(acc, cur), TRUE)
         ELSE re_split_from(Tail(s), Append(cur, Head(s)), acc, FALSE)

\* re.split(r"\s+", s): the pieces between whitespace runs, empty ones kept
re_split_ws(s) == re_split_from(s, <<>>, <<>>, FALSE)

\* Mutant of tokenize_source_text: the test of lines 23-24 left out.
tokenize_without_empty_test(text) == re_split_ws(normalize_text(text))

tokenize_source_text(text) ==
    LET t == normalize_text(text)
    IN  IF t = <<>> THEN <<>> ELSE re_split_ws(t)

startswith(s, p) == Len(p) <= Len(s) /\ SubSeq(s, 1, Len(p)) = p

RECURSIVE load_word_bank(_)

\* Mutant of load_word_bank: the line is appended as read, not stripped.
load_word_bank_unstripped(lines) ==
    IF lines = <<>> THEN <<>>
    ELSE LET s == strip(Head(lines))
         IN  IF s = <<>> THEN load_word_bank(Tail(lines))
             ELSE IF startswith(s, <<"#">>) THEN load_word_bank(Tail(lines))
             ELSE <<Head(lines)>> \o load_word_bank(Tail(lines))

load_word_bank(lines) ==
    IF lines = <<>> THEN <<>>
    ELSE LET s == strip(Head(lines))
         IN  IF s = <<>> THEN load_word_bank(Tail(lines))
             ELSE IF startswith(s, <<"#">>) THEN load_word_bank(Tail(lines))
             ELSE <<s>> \o load_word_bank(Tail(lines))

-----------------------------------------------------------------------------
(* JSON values, as json.load returns them: every value is a record of one *)
(* shape, t naming the Python type.  An object lists its (key, value)     *)
(* pairs in file order; its keys are texts and are distinct.              *)

JStr(s) == [t |-> "str", s |-> s, items |-> <<>>]
JList(xs) == [t |-> "list", s |-> <<>>, items |-> xs]
JNum == [t |-> "int", s |-> <<>>, items |-> <<>>]
JObj(kvs) == [t |-> "dict", s |-> <<>>, items |-> kvs]

Letters ==
    {"A","B","C","D","E","F","G","H","I","J","K","L","M","N","O","P","Q","R",
     "S","T","U","V","W","X","Y","Z","a","b","c","d","e","f","g","h","i","j",
     "k","l","m","n","o","p","q","r","s","t","u","v","w","x","y","z"}

Digits == {"0","1","2","3","4","5","6","7","8","9"}

Separators == {"-", "/", "*"}

looks_like_stroke(s) ==
    /\ \A i \in DOMAIN s : s[i] \in Letters \cup Separators \cup Digits
    /\ \E i \in DOMAIN s : s[i] \in Separators

\* A Python dict is a function from its keys; out[k] = v and
\* out.setdefault(k, []).append(v).
EmptyDict == <<>>

dict_set(out, k, v) ==
    IF k \in DOMAIN out THEN [out EXCEPT ![k] = v] ELSE out @@ (k :> v)

setdefault_append(out, k, v) ==
    IF k \in DOMAIN out THEN [out EXCEPT ![k] = Append(@, v)] ELSE out @@ (k :> <<v>>)

key_strokeish(items) ==
    Cardinality({i \in DOMAIN items : looks_like_stroke(items[i][1])})

val_stringish(items) ==
    Cardinality({i \in DOMAIN items : items[i][2].t = "str"})

\* Mutant of stroke_keyed: the thresholds N/4 and 3N/4 without the floor.
stroke_keyed_exact(items) ==
    /\ 4 * key_strokeish(items) >= max(4, Len(items))
    /\ 4 * val_stringish(items) >= max(4, Len(items) * 3)

\* The test of line 76, with Python's floor division.
stroke_keyed(items) ==
    /\ key_strokeish(items) >= max(1, Len(items) \div 4)
    /\ val_stringish(items) >= max(1, (Len(items) * 3) \div 4)

\* Lines 77-83: stroke -> translation, inverted.
RECURSIVE invert_items(_, _)
invert_items(items, out) ==
    IF items = <<>> THEN out
    ELSE LET stroke == items[1][1]
             translation == items[1][2]
         IN  IF translation.t # "str" THEN invert_items(Tail(items), out)
             ELSE invert_items(Tail(items),
                      setdefault_append(out, normalize_text(translation.s), stroke))

\* Mutant of all_str: the elements of the list are not looked at.
all_str_unchecked(xs) == TRUE

all_str(xs) == \A i \in DOMAIN xs : xs[i].t = "str"

\* Lines 86-95: translation -> strokes.
RECURSIVE direct_items(_, _)
direct_items(items, out) ==
    IF items = <<>> THEN out
    ELSE LET t == normalize_text(items[1][1])
             strokes == items[1][2]
         IN  IF strokes.t = "str"
             THEN direct_items(Tail(items), dict_set(out, t, <<strokes.s>>))
             ELSE IF strokes.t = "list" /\ all_str(strokes.items)
             THEN direct_items(Tail(items),
                      dict_set(out, t, [i \in DOMAIN strokes.items |-> strokes.items[i].s]))
             ELSE direct_items(Tail(items), out)

\* The result of the call: ok = FALSE is the ValueError of line 62; inverted
\* records that the branch of lines 77-83 produced the value.
load_dictionary_json(raw) ==
    IF raw.t # "dict"
    THEN [ok |-> FALSE, value |-> EmptyDict, inverted |-> FALSE]
    ELSE IF raw.items = <<>>
    THEN [ok |-> TRUE, value |-> EmptyDict, inverted |-> FALSE]
    ELSE IF stroke_keyed(raw.items)
    THEN [ok |-> TRUE, value |-> invert_items(raw.items, EmptyDict), inverted |-> TRUE]
    ELSE [ok |-> TRUE, value |-> direct_items(raw.items, EmptyDict), inverted |-> FALSE]

-----------------------------------------------------------------------------
(* The app object.  Self(r) is the object as a handler finds it; rand is  *)
(* the draw random.choice will make in this handler.  fired (the correct- *)
(* attempt transition ran) and error (messagebox.showerror was called)    *)
(* record what the handler did.                                           *)

Self(r) ==
    [word_bank_path |-> word_bank_path, dict_path |-> dict_path,
     word_bank |-> word_bank, steno_dict |-> steno_dict,
     source_mode |-> source_mode, quote_tokens |-> quote_tokens,
     quote_idx |-> quote_idx, _pending_advance |-> _pending_advance,
     current_word |-> current_word, session_started_at |-> session_started_at,
     total_attempts |-> total_attempts, correct_attempts |-> correct_attempts,
     total_correct_chars |-> total_correct_chars, streak |-> streak,
     best_streak |-> best_streak, var_input |-> var_input,
     occ_count |-> occ_count, quote_exhausted |-> quote_exhausted,
     fired |-> FALSE, error |-> FALSE, rand |-> r]

\* random.choice(seq), seq not empty: any element, picked by the draw.
random_choice(seq, r) == seq[((r - 1) % Len(seq)) + 1]

\* Python truthiness of an Optional[str] / Optional[float].
truthy(opt) == opt # None /\ opt[1] # <<>>

\* time.time()
time_time == now

\* x or time.time(), for x an optional time (a time is never 0 here)
or_time(opt) == IF opt # None THEN opt ELSE Some(time_time)

RECURSIVE on_text_change(_)

\* self.var_input.set(v): the write trace of line 305 runs on_text_change.
var_input_set(s, v) == on_text_change([s EXCEPT !.var_input = v])

\* Mutant of _set_current: line 481 left out, the entry keeps its text.
set_current_keeps_input(s, text) ==
    [s EXCEPT !.current_word = Some(text), !.occ_count = 0]

_set_current(s, text) ==
    var_input_set([s EXCEPT !.current_word = Some(text), !.occ_count = 0], <<>>)

\* Mutant of _pick_new_word_from_bank: the emptiness test of line 487 inverted.
pick_guard_inverted(s) ==
    IF s.word_bank # <<>>
    THEN [s EXCEPT !.current_word = None, !.occ_count = 0]
    ELSE s

_pick_new_word_from_bank(s) ==
    IF s.word_bank = <<>>
    THEN [s EXCEPT !.current_word = None, !.occ_count = 0]
    ELSE _set_current(s, random_choice(s.word_bank, s.rand))

\* Mutant of _maybe_start: line 497 left out, the mode stays what it was.
maybe_start_keeps_mode(s) ==
    IF s.current_word = None /\ s.word_bank # <<>>
    THEN _pick_new_word_from_bank(
             [s EXCEPT !.session_started_at = Some(time_time)])
    ELSE s

_maybe_start(s) ==
    IF s.current_word = None /\ s.word_bank # <<>>
    THEN _pick_new_word_from_bank(
             [s EXCEPT !.session_started_at = Some(time_time),
                       !.source_mode = "bank_random"])
    ELSE s

\* Mutant of advance_target: the flag is cleared only where a Target is set
\* or the quote completes.
advance_clears_flag_late(s) ==
    IF s.source_mode = "quote_seq"
    THEN IF s.quote_tokens = <<>> THEN s
         ELSE IF s.quote_idx < Len(s.quote_tokens) - 1
         THEN LET s1 == [s EXCEPT !._pending_advance = FALSE, !.quote_idx = @ + 1]
              IN  _set_current(s1, s1.quote_tokens[s1.quote_idx + 1])
         ELSE [s EXCEPT !._pending_advance = FALSE,
                        !.current_word = None,
                        !.occ_count = 0,
                        !.quote_exhausted = TRUE]
    ELSE IF s.word_bank = <<>> THEN s
    ELSE _pick_new_word_from_bank([s EXCEPT !._pending_advance = FALSE])

\* Mutant of advance_target: at the last token it stops as the skip does.
advance_stops_at_end(s) ==
    LET s0 == [s EXCEPT !._pending_advance = FALSE]
    IN  IF s0.source_mode = "quote_seq"
        THEN IF s0.quote_tokens = <<>> THEN s0
             ELSE IF s0.quote_idx < Len(s0.quote_tokens) - 1
             THEN LET s1 == [s0 EXCEPT !.quote_idx = @ + 1]
                  IN  _set_current(s1, s1.quote_tokens[s1.quote_idx + 1])
             ELSE s0
        ELSE IF s0.source_mode = "bank_random"
        THEN IF s0.word_bank = <<>> THEN s0 ELSE _pick_new_word_from_bank(s0)
        ELSE IF s0.word_bank # <<>> THEN _pick_new_word_from_bank(s0) ELSE s0

advance_target(s) ==
    LET s0 == [s EXCEPT !._pending_advance = FALSE]
    IN  IF s0.source_mode = "quote_seq"
        THEN IF s0.quote_tokens = <<>> THEN s0
             ELSE IF s0.quote_idx < Len(s0.quote_tokens) - 1
             THEN LET s1 == [s0 EXCEPT !.quote_idx = @ + 1]
                  IN  _set_current(s1, s1.quote_tokens[s1.quote_idx + 1])
             ELSE [s0 EXCEPT !.current_word = None,
                             !.occ_count = 0,
                             !.quote_exhausted = TRUE]
        ELSE IF s0.source_mode = "bank_random"
        THEN IF s0.word_bank = <<>> THEN s0 ELSE _pick_new_word_from_bank(s0)
        ELSE IF s0.word_bank # <<>> THEN _pick_new_word_from_bank(s0) ELSE s0

\* Mutant of _count_correct_and_schedule_advance: line 575 left out.
count_without_total(s) ==
    IF s._pending_advance THEN s
    ELSE LET target == normalize_text(IF truthy(s.current_word) THEN s.current_word[1] ELSE <<>>)
             s1 == [s EXCEPT !._pending_advance = TRUE,
                             !.correct_attempts = @ + 1,
                             !.streak = @ + 1,
                             !.occ_count = @ + 1,
                             !.fired = TRUE]
             s2 == [s1 EXCEPT !.best_streak = max(@, s1.streak),
                              !.total_correct_chars = @ + Len(target)]
         IN  advance_target(s2)

_count_correct_and_schedule_advance(s) ==
    IF s._pending_advance THEN s
    ELSE LET target == normalize_text(IF truthy(s.current_word) THEN s.current_word[1] ELSE <<>>)
             s1 == [s EXCEPT !._pending_advance = TRUE,
                             !.correct_attempts = @ + 1,
                             !.total_attempts = @ + 1,
                             !.streak = @ + 1,
                             !.occ_count = @ + 1,
                             !.fired = TRUE]
             s2 == [s1 EXCEPT !.best_streak = max(@, s1.streak),
                              !.total_correct_chars = @ + Len(target)]
         IN  advance_target(s2)

\* Mutant of on_text_change: a mismatch is counted as an attempt and ends
\* the streak.
on_text_change_counts_mismatch(s) ==
    IF ~truthy(s.current_word) THEN s
    ELSE LET typed == normalize_text(s.var_input)
             target == normalize_text(s.current_word[1])
         IN  IF typed = <<>> THEN s
             ELSE IF typed = target THEN _count_correct_and_schedule_advance(s)
             ELSE IF startswith(target, typed) THEN s
             ELSE [s EXCEPT !.total_attempts = @ + 1, !.streak = 0]

on_text_change(s) ==
    IF ~truthy(s.current_word) THEN s
    ELSE LET typed == normalize_text(s.var_input)
             target == normalize_text(s.current_word[1])
         IN  IF typed = <<>> THEN s
             ELSE IF typed = target THEN _count_correct_and_schedule_advance(s)
             ELSE IF startswith(target, typed) THEN s
             ELSE s

\* Mutant of on_submit: a submitted mismatch is counted as an attempt.
on_submit_counts_wrong(s) ==
    IF ~truthy(s.current_word) \/ s._pending_advance THEN s
    ELSE IF normalize_text(s.var_input) = normalize_text(s.current_word[1])
         THEN _count_correct_and_schedule_advance(s)
         ELSE [s EXCEPT !.total_attempts = @ + 1, !.streak = 0]

on_submit(s) ==
    IF ~truthy(s.current_word) \/ s._pending_advance THEN s
    ELSE IF normalize_text(s.var_input) = normalize_text(s.current_word[1])
         THEN _count_correct_and_schedule_advance(s)
         ELSE s

\* Mutant of on_next_word: the cursor moves on a skip at the last token too.
skip_past_end(s) ==
    LET s0 == [s EXCEPT !._pending_advance = FALSE, !.streak = 0]
    IN  IF s0.source_mode = "quote_seq"
        THEN IF s0.quote_tokens = <<>> THEN s0
             ELSE IF s0.quote_idx < Len(s0.quote_tokens) - 1
             THEN LET s1 == [s0 EXCEPT !.quote_idx = @ + 1]
                  IN  _set_current(s1, s1.quote_tokens[s1.quote_idx + 1])
             ELSE [s0 EXCEPT !.quote_idx = @ + 1]
        ELSE IF s0.word_bank = <<>> THEN s0
        ELSE _pick_new_word_from_bank(
                 [s0 EXCEPT !.session_started_at = or_time(@)])

\* Mutant of on_next_word: line 535 left out, the streak survives a skip.
skip_keeps_streak(s) ==
    LET s0 == [s EXCEPT !._pending_advance = FALSE]
    IN  IF s0.source_mode = "quote_seq"
        THEN IF s0.quote_tokens = <<>> THEN s0
             ELSE IF s0.quote_idx < Len(s0.quote_tokens) - 1
             THEN LET s1 == [s0 EXCEPT !.quote_idx = @ + 1]
                  IN  _set_current(s1, s1.quote_tokens[s1.quote_idx + 1])
             ELSE s0
        ELSE IF s0.word_bank = <<>> THEN s0
        ELSE _pick_new_word_from_bank(
                 [s0 EXCEPT !.session_started_at = or_time(@)])

on_next_word(s) ==
    LET s0 == [s EXCEPT !._pending_advance = FALSE, !.streak = 0]
    IN  IF s0.source_mode = "quote_seq"
        THEN IF s0.quote_tokens = <<>> THEN s0
             ELSE IF s0.quote_idx < Len(s0.quote_tokens) - 1
             THEN LET s1 == [s0 EXCEPT !.quote_idx = @ + 1]
                  IN  _set_current(s1, s1.quote_tokens[s1.quote_idx + 1])
             ELSE s0
        ELSE IF s0.word_bank = <<>> THEN s0
        ELSE _pick_new_word_from_bank(
                 [s0 EXCEPT !.session_started_at = or_time(@)])

\* Mutant of restart_quote: the Target is the last token, the cursor 0.
restart_quote_from_last(s, text) ==
    LET s0 == [s EXCEPT !.quote_tokens = tokenize_source_text(strip(text)),
                        !.quote_idx = 0,
                        !.quote_exhausted = FALSE]
    IN  IF s0.quote_tokens = <<>>
        THEN [s0 EXCEPT !.current_word = None, !.occ_count = 0]
        ELSE _set_current([s0 EXCEPT !.session_started_at = or_time(@)],
                          s0.quote_tokens[Len(s0.quote_tokens)])

\* text is what the source text box holds when the button is pressed.
restart_quote(s, text) ==
    LET s0 == [s EXCEPT !.quote_tokens = tokenize_source_text(strip(text)),
                        !.quote_idx = 0,
                        !.quote_exhausted = FALSE]
    IN  IF s0.quote_tokens = <<>>
        THEN [s0 EXCEPT !.current_word = None, !.occ_count = 0]
        ELSE _set_current([s0 EXCEPT !.session_started_at = or_time(@)],
                          s0.quote_tokens[s0.quote_idx + 1])

use_quote_mode(s, text) ==
    restart_quote([s EXCEPT !.source_mode = "quote_seq"], text)

use_bank_random(s) ==
    LET s0 == [s EXCEPT !.source_mode = "bank_random"]
    IN  IF s0.word_bank = <<>>
        THEN s0
        ELSE _pick_new_word_from_bank(
                 [s0 EXCEPT !.session_started_at = or_time(@)])

\* Mutant of _reset_session: line 639 left out, best_streak survives.
reset_keeps_best(s) ==
    LET s0 == [s EXCEPT !._pending_advance = FALSE,
                        !.current_word = None,
                        !.occ_count = 0,
                        !.session_started_at = None,
                        !.total_attempts = 0,
                        !.correct_attempts = 0,
                        !.total_correct_chars = 0,
                        !.streak = 0]
    IN  _maybe_start(var_input_set(s0, <<>>))

_reset_session(s) ==
    LET s0 == [s EXCEPT !._pending_advance = FALSE,
                        !.current_word = None,
                        !.occ_count = 0,
                        !.session_started_at = None,
                        !.total_attempts = 0,
                        !.correct_attempts = 0,
                        !.total_correct_chars = 0,
                        !.streak = 0,
                        !.best_streak = 0]
    IN  _maybe_start(var_input_set(s0, <<>>))

\* Mutant of on_load_word_bank: the bank is installed before it is tested.
load_bank_installs_first(s, path, lines) ==
    LET words == load_word_bank(lines)
        s0 == [s EXCEPT !.word_bank_path = Some(path), !.word_bank = words]
    IN  IF words = <<>> THEN [s0 EXCEPT !.error = TRUE]
        ELSE _maybe_start(s0)

\* round(n / d) for n >= 0, d > 0, halves going to the even neighbour as
\* Python's round does.
round_div(n, d) ==
    LET q == n \div d
        r == n % d
    IN  IF 2 * r < d THEN q
        ELSE IF 2 * r > d THEN q + 1
        ELSE IF q % 2 = 0 THEN q ELSE q + 1

\* Mutant of _compute_accuracy: the factor of line 667 is 1000.
accuracy_per_mille(s) ==
    IF s.total_attempts = 0 THEN 0
    ELSE round_div(1000 * s.correct_attempts, s.total_attempts)

\* int(round(100.0 * (correct / total))): the quotients the session can
\* reach are exact in floating point.
_compute_accuracy(s) ==
    IF s.total_attempts = 0 THEN 0
    ELSE round_div(100 * s.correct_attempts, s.total_attempts)

\* path: the file picked in the dialog (a cancelled dialog returns before
\* anything is read or written).  lines: the file's lines.
on_load_word_bank(s, path, lines) ==
    LET words == load_word_bank(lines)
    IN  IF words = <<>> THEN [s EXCEPT !.error = TRUE]
        ELSE _maybe_start([s EXCEPT !.word_bank_path = Some(path),
                                    !.word_bank = words])

\* raw: what json.load returns for the file.
on_load_dict(s, path, raw) ==
    LET d == load_dictionary_json(raw)
    IN  IF ~d.ok THEN [s EXCEPT !.error = TRUE]
        ELSE [s EXCEPT !.dict_path = Some(path), !.steno_dict = d.value]

\* bank, dct: the paths load_config returned whose files still exist
\* (None: no such entry).  An empty bank is installed as it is here.
_autoload_last_files(s, bank, bank_lines, dct, dct_raw) ==
    LET s1 == IF bank = None THEN s
              ELSE [s EXCEPT !.word_bank = load_word_bank(bank_lines),
                             !.word_bank_path = bank]
        d == load_dictionary_json(dct_raw)
        s2 == IF dct = None \/ ~d.ok THEN s1
              ELSE [s1 EXCEPT !.steno_dict = d.value, !.dict_path = dct]
    IN  _maybe_start(s2)

\* The fields as lines 131-158 of __init__ set them.
Fresh(r) ==
    [word_bank_path |-> None, dict_path |-> None,
     word_bank |-> <<>>, steno_dict |-> EmptyDict,
     source_mode |-> "bank_random", quote_tokens |-> <<>>,
     quote_idx |-> 0, _pending_advance |-> FALSE,
     current_word |-> None, session_started_at |-> None,
     total_attempts |-> 0, correct_attempts |-> 0,
     total_correct_chars |-> 0, streak |-> 0,
     best_streak |-> 0, var_input |-> <<>>,
     occ_count |-> 0, quote_exhausted |-> FALSE,
     fired |-> FALSE, error |-> FALSE, rand |-> r]

-----------------------------------------------------------------------------
(* The files and texts the user has at hand *)

BankPaths == {"w0", "w1", "w2"}

\* The lines of each word bank file, as iterating the file yields them.
BankFile(p) ==
    CASE p = "w1" -> << <<"a", " ", " ", "b", "\n">>, <<"#", " ", "c", "\n">>,
                        <<"\n">>, <<" ", "b", " ", "\n">> >>
      [] p = "w2" -> << <<"a", "\n">> >>
      [] OTHER    -> << <<"#", "c", "\n">>, <<" ", "\n">> >>

DictPaths == {"d0", "d1"}

\* d1: {"a": ["AB"], "b": "K/H"}   d0: ["a"], not an object
DictFile(p) ==
    CASE p = "d1" -> JObj(<< << <<"a">>, JList(<<JStr(<<"A", "B">>)>>) >>,
                             << <<"b">>, JStr(<<"K", "/", "H">>) >> >>)
      [] OTHER    -> JList(<<JStr(<<"a">>)>>)

\* What the source text box may hold.
SourceTexts == { <<>>, <<" ", "b", " ", " ", "a", "\n">>, <<"a">> }

\* What the entry may hold after an edit.
TypedTexts ==
    { <<>>, <<"a">>, <<"b">>, <<"a", " ">>, <<"a", " ", "b">> }

\* The draws random.choice can make from a bank.
Draws(bank) == 1..max(1, Len(bank))

Outcome(r) == IF r.fired THEN "correct" ELSE IF r.error THEN "error" ELSE "done"

-----------------------------------------------------------------------------
(* Events *)

\* The handler's result becomes the state.  The attempt counters are
\* capped: an event that would count past MaxAttempts is not taken.
Apply(r, ev) ==
    /\ r.total_attempts <= MaxAttempts
    /\ r.correct_attempts <= MaxAttempts
    /\ word_bank_path' = r.word_bank_path
    /\ dict_path' = r.dict_path
    /\ word_bank' = r.word_bank
    /\ steno_dict' = r.steno_dict
    /\ source_mode' = r.source_mode
    /\ quote_tokens' = r.quote_tokens
    /\ quote_idx' = r.quote_idx
    /\ _pending_advance' = r._pending_advance
    /\ current_word' = r.current_word
    /\ session_started_at' = r.session_started_at
    /\ total_attempts' = r.total_attempts
    /\ correct_attempts' = r.correct_attempts
    /\ total_correct_chars' = r.total_correct_chars
    /\ streak' = r.streak
    /\ best_streak' = r.best_streak
    /\ var_input' = r.var_input
    /\ occ_count' = r.occ_count
    /\ quote_exhausted' = r.quote_exhausted
    /\ last_event' = <<ev, Outcome(r)>>
    /\ UNCHANGED <<now, json_raw, json_out, call_arg, call_ret>>

InitFrom(r) ==
    /\ word_bank_path = r.word_bank_path
    /\ dict_path = r.dict_path
    /\ word_bank = r.word_bank
    /\ steno_dict = r.steno_dict
    /\ source_mode = r.source_mode
    /\ quote_tokens = r.quote_tokens
    /\ quote_idx = r.quote_idx
    /\ _pending_advance = r._pending_advance
    /\ current_word = r.current_word
    /\ session_started_at = r.session_started_at
    /\ total_attempts = r.total_attempts
    /\ correct_attempts = r.correct_attempts
    /\ total_correct_chars = r.total_correct_chars
    /\ streak = r.streak
    /\ best_streak = r.best_streak
    /\ var_input = r.var_input
    /\ occ_count = r.occ_count
    /\ quote_exhausted = r.quote_exhausted
    /\ last_event = <<"__init__", "done">>

\* __init__: the fields, _reset_session(), _autoload_last_files().
Init ==
    /\ now = 1
    /\ json_raw = None
    /\ json_out = None
    /\ call_arg = None
    /\ call_ret = None
    /\ \E bank \in {None} \cup {Some(p) : p \in BankPaths},
          dct \in {None} \cup {Some(p) : p \in DictPaths} :
        \E r \in Draws(IF bank = None THEN <<>> ELSE load_word_bank(BankFile(bank[1]))) :
          InitFrom(_autoload_last_files(
                       _reset_session(Fresh(r)),
                       bank, IF bank = None THEN <<>> ELSE BankFile(bank[1]),
                       dct, IF dct = None THEN JNum ELSE DictFile(dct[1])))

\* A write of var_input, whose trace runs on_text_change: an edit of the
\* entry, which changes the text, or <Escape>, which sets it to "".
OnTextChange ==
    \E t \in TypedTexts, r \in Draws(word_bank) :
        /\ t # var_input \/ t = <<>>
        /\ Apply(var_input_set(Self(r), t), "on_text_change")

\* <Return>
OnSubmit == \E r \in Draws(word_bank) : Apply(on_submit(Self(r)), "on_submit")

OnNextWord == \E r \in Draws(word_bank) : Apply(on_next_word(Self(r)), "on_next_word")

ResetSession == \E r \in Draws(word_bank) : Apply(_reset_session(Self(r)), "_reset_session")

UseQuoteMode == \E text \in SourceTexts : Apply(use_quote_mode(Self(1), text), "use_quote_mode")

RestartQuote == \E text \in SourceTexts : Apply(restart_quote(Self(1), text), "restart_quote")

UseBankRandom == \E r \in Draws(word_bank) : Apply(use_bank_random(Self(r)), "use_bank_random")

OnLoadWordBank ==
    \E path \in BankPaths :
      \E r \in Draws(load_word_bank(BankFile(path))) :
        Apply(on_load_word_bank(Self(r), path, BankFile(path)), "on_load_word_bank")

OnLoadDict ==
    \E path \in DictPaths :
        Apply(on_load_dict(Self(1), path, DictFile(path)), "on_load_dict")

\* Time passes between events.
Tick ==
    /\ now < MaxTime
    /\ now' = now + 1
    /\ UNCHANGED <<appvars, last_event, occ_count, quote_exhausted,
                   json_raw, json_out, call_arg, call_ret>>

Next ==
    \/ OnSubmit
    \/ OnTextChange
    \/ OnNextWord
    \/ ResetSession
    \/ UseQuoteMode
    \/ RestartQuote
    \/ UseBankRandom
    \/ OnLoadWordBank
    \/ OnLoadDict

\* The session with the clock standing still: the time read is stored in
\* session_started_at and decides nothing else.
Spec == Init /\ [][Next]_vars

TimedNext ==
    \/ Next
    \/ Tick

\* The session with time passing between events.
TimedSpec == Init /\ [][TimedNext]_vars

-----------------------------------------------------------------------------
(* Claims about the practice session *)

Correct(ev) == ev[2] = "correct"

\* C1 (as claimed): an exact match delivered through on_text_change and
\* on_submit, in any order and number, is counted exactly once for one Target
\* occurrence: the attempts counted for the active occurrence never exceed 1.
C1_CountedOncePerTarget == occ_count <= 1

\* C2: correct_attempts <= total_attempts in every reachable state.
C2_CorrectAtMostTotal == correct_attempts <= total_attempts

C2_Witness ==
    /\ correct_attempts > 0
    /\ streak = 0
    /\ last_event[1] = "on_next_word"

\* C3: with a non-empty bank, after every advance in bank mode (the one that
\* follows a correct attempt, and a manual skip) a Target is active and is a
\* member of the bank.
C3_BankAdvanceInBank ==
    ( /\ source_mode = "bank_random"
      /\ word_bank # <<>>
      /\ (Correct(last_event) \/ last_event[1] = "on_next_word") )
    => (current_word # None /\ current_word[1] \in Range(word_bank))

C3_Witness ==
    /\ source_mode = "bank_random"
    /\ Len(word_bank) = 2
    /\ Correct(last_event)
    /\ total_attempts = 2
    /\ current_word # None

\* C4 (as claimed): in quote mode the cursor never exceeds
\* len(quote_tokens) - 1, whatever the token sequence is.
C4_CursorBelowLen ==
    source_mode = "quote_seq" => quote_idx <= Len(quote_tokens) - 1

\* C4 (amended): in quote mode the cursor never exceeds len(quote_tokens) - 1
\* when the token sequence is not empty, and is 0 when it is empty.
C4_CursorBound ==
    source_mode = "quote_seq" =>
        IF quote_tokens = <<>> THEN quote_idx = 0
        ELSE quote_idx <= Len(quote_tokens) - 1

C4_Witness ==
    /\ source_mode = "quote_seq"
    /\ Len(quote_tokens) = 2
    /\ quote_idx = 1
    /\ current_word # None
    /\ last_event[1] = "on_next_word"
    /\ streak = 0 /\ best_streak > 0

\* C5 (as claimed): once the quote is exhausted, until a quote restart no
\* event produces a Target and the cursor does not move.
C5_NoTargetUntilRestart ==
    [][(quote_exhausted /\ quote_exhausted')
          => (current_word' = None /\ quote_idx' = quote_idx)]_vars

\* C5 (amended): once the quote is exhausted, until a quote restart the
\* cursor and the tokens do not change and no event produces a Target while
\* the session stays in quote mode; a Target appears only with the session
\* in bank mode and a bank loaded.
C5_NoQuoteTargetUntilRestart ==
    [][(quote_exhausted /\ quote_exhausted')
          => /\ quote_idx' = quote_idx
             /\ quote_tokens' = quote_tokens
             /\ source_mode' = "quote_seq" => current_word' = None
             /\ current_word' # None =>
                    /\ source_mode' = "bank_random"
                    /\ word_bank' # <<>>]_vars

C5_Witness ==
    /\ quote_exhausted
    /\ source_mode = "quote_seq"
    /\ current_word = None
    /\ quote_idx = Len(quote_tokens) - 1
    /\ last_event[1] = "on_next_word"

\* The text t typed into the entry is an exact match of the active Target.
Matches(t) ==
    /\ truthy(current_word)
    /\ normalize_text(t) # <<>>
    /\ normalize_text(t) = normalize_text(current_word[1])

\* The step is the input-change event for the typed text t.
TextChangeStep(t) ==
    /\ t # var_input \/ t = <<>>
    /\ \E r \in Draws(word_bank) : Apply(var_input_set(Self(r), t), "on_text_change")

\* C6 (as claimed): an input-change event whose text matches the Target adds
\* 1 to total_attempts, correct_attempts and streak, makes best_streak the
\* maximum of itself and streak, adds the normalized Target's length to
\* total_correct_chars, and advances the Target: in bank mode to a member of
\* the bank, in quote mode to the next token, or to none after the last.
C6_MatchCountsAndAdvances ==
    [][\A t \in TypedTexts : (Matches(t) /\ TextChangeStep(t)) =>
          /\ total_attempts' = total_attempts + 1
          /\ correct_attempts' = correct_attempts + 1
          /\ streak' = streak + 1
          /\ best_streak' = max(best_streak, streak')
          /\ total_correct_chars' =
                 total_correct_chars + Len(normalize_text(current_word[1]))
          /\ ~_pending_advance'
          /\ occ_count' = 0
          /\ source_mode = "bank_random" =>
                 /\ current_word' # None
                 /\ current_word'[1] \in Range(word_bank)
          /\ source_mode = "quote_seq" =>
                 IF quote_idx < Len(quote_tokens) - 1
                 THEN /\ quote_idx' = quote_idx + 1
                      /\ current_word' = Some(quote_tokens[quote_idx + 2])
                 ELSE current_word' = None]_vars

\* C7 (as claimed): a manual skip leaves total_attempts, correct_attempts,
\* total_correct_chars and best_streak unchanged, sets streak to 0, and
\* selects a new Target: in bank mode a member of the bank, in quote mode
\* the next token.
C7_SkipSelectsNewTarget ==
    [][last_event'[1] = "on_next_word" =>
          /\ UNCHANGED <<total_attempts, correct_attempts,
                         total_correct_chars, best_streak>>
          /\ streak' = 0
          /\ source_mode = "bank_random" =>
                 /\ current_word' # None
                 /\ current_word'[1] \in Range(word_bank)
          /\ source_mode = "quote_seq" =>
                 /\ quote_idx + 1 < Len(quote_tokens)
                 /\ quote_idx' = quote_idx + 1
                 /\ current_word' = Some(quote_tokens[quote_idx + 2])]_vars

\* C7 (amended): a manual skip leaves total_attempts, correct_attempts,
\* total_correct_chars and best_streak unchanged, sets streak to 0, and
\* selects a new Target where the source has one to give: in bank mode with
\* a non-empty bank a member of the bank, in quote mode before the last
\* token the next token.  At the last token, with no tokens, and with an
\* empty bank, Target and cursor stay as they are.
C7_SkipFrameAndTarget ==
    [][last_event'[1] = "on_next_word" =>
          /\ UNCHANGED <<total_attempts, correct_attempts,
                         total_correct_chars, best_streak,
                         source_mode, quote_tokens, word_bank>>
          /\ streak' = 0
          /\ source_mode = "bank_random" =>
                 IF word_bank # <<>>
                 THEN /\ current_word' # None
                      /\ current_word'[1] \in Range(word_bank)
                      /\ quote_idx' = quote_idx
                 ELSE UNCHANGED <<current_word, quote_idx>>
          /\ source_mode = "quote_seq" =>
                 IF quote_idx + 1 < Len(quote_tokens)
                 THEN /\ quote_idx' = quote_idx + 1
                      /\ current_word' = Some(quote_tokens[quote_idx + 2])
                 ELSE UNCHANGED <<current_word, quote_idx>>]_vars

C7_Witness ==
    /\ last_event[1] = "on_next_word"
    /\ source_mode = "bank_random"
    /\ current_word # None
    /\ total_attempts > 0
    /\ best_streak > 0
    /\ streak = 0

\* C8: after _reset_session the five counters are 0 and Pending-Advance is
\* false, whatever the state the reset was issued in.
C8_ResetClearsCounters ==
    last_event[1] = "_reset_session" =>
        /\ total_attempts = 0
        /\ correct_attempts = 0
        /\ total_correct_chars = 0
        /\ streak = 0
        /\ best_streak = 0
        /\ ~_pending_advance

\* A reset issued after a quote was typed to its end, with a bank loaded.
C8_Witness ==
    /\ last_event[1] = "_reset_session"
    /\ quote_exhausted
    /\ current_word # None

\* C9: a load that fails (a word bank with no usable lines, a dictionary
\* whose top-level value is not an object) leaves every field of the session
\* as it was before the load.
C9_FailedLoadChangesNothing ==
    [][last_event'[2] = "error" => UNCHANGED appvars]_vars

\* A word-bank load that failed with a bank, a dictionary and attempts in place.
C9_Witness ==
    /\ last_event = <<"on_load_word_bank", "error">>
    /\ word_bank # <<>>
    /\ DOMAIN steno_dict # {}
    /\ current_word # None
    /\ total_attempts > 0

-----------------------------------------------------------------------------
(* The dictionary loader on its own: load_dictionary_json is called once  *)
(* on a parsed JSON value, with the session as __init__ leaves it.        *)

\* Keys: two stroke-shaped ones, one of letters only, two of one normalized
\* text.
KeyPool ==
    { <<"K", "/", "H">>, <<"-", "T">>, <<"A", "B">>, <<"a", " ">>, <<"a">> }

\* Values: two strings of one normalized text, another string, a list of
\* two strings, a list with a number in it, a number.
ValuePool ==
    { JStr(<<"a">>), JStr(<<" ", "a">>), JStr(<<"b">>),
      JList(<<JStr(<<"A", "B">>), JStr(<<"K", "/", "H">>)>>),
      JList(<<JStr(<<"A">>), JNum>>), JNum }

\* The keys of an object of n entries, in file order: they are distinct.
KeySeqs(n) ==
    { ks \in [1..n -> KeyPool] : \A i, j \in 1..n : i # j => ks[i] # ks[j] }

\* The object with keys ks and values vs, in file order.
ObjectOf(ks, vs) == JObj([i \in DOMAIN ks |-> <<ks[i], vs[i]>>])

\* { "message": ["PHEPBLG"], "cellular": "KREL/HRER" }
ScenarioDirect ==
    JObj(<< << <<"m","e","s","s","a","g","e">>,
               JList(<<JStr(<<"P","H","E","P","B","L","G">>)>>) >>,
            << <<"c","e","l","l","u","l","a","r">>,
               JStr(<<"K","R","E","L","/","H","R","E","R">>) >> >>)

\* { "PHEPBLG": "message", "KREL/HRER": "cellular" }
ScenarioInverted ==
    JObj(<< << <<"P","H","E","P","B","L","G">>,
               JStr(<<"m","e","s","s","a","g","e">>) >>,
            << <<"K","R","E","L","/","H","R","E","R">>,
               JStr(<<"c","e","l","l","u","l","a","r">>) >> >>)

\* The other inputs: the two scenario dictionaries and two values that are
\* not objects.
RawDicts ==
    { ScenarioDirect, ScenarioInverted, JList(<<JStr(<<"a">>)>>), JNum }

\* The call is made on one of RawDicts or on an object of up to MaxDictLen
\* entries over the pools.
DictInit ==
    /\ now = 1
    /\ InitFrom(_reset_session(Fresh(1)))
    /\ \/ json_raw \in { Some(raw) : raw \in RawDicts }
       \/ \E n \in 0..MaxDictLen :
             \E ks \in KeySeqs(n), vs \in [1..n -> ValuePool] :
                json_raw = Some(ObjectOf(ks, vs))
    /\ json_out = None
    /\ call_arg = None
    /\ call_ret = None

CallLoadDictionaryJson ==
    /\ json_out = None
    /\ json_out' = Some(load_dictionary_json(json_raw[1]))
    /\ UNCHANGED <<appvars, now, last_event, occ_count, quote_exhausted,
                   json_raw, call_arg, call_ret>>

DictNext == CallLoadDictionaryJson

DictSpec == DictInit /\ [][DictNext]_vars

-----------------------------------------------------------------------------
(* Claims about the dictionary loader *)

\* The entries whose value is a string, in file order.
StrEntries(items) == SelectSeq(items, LAMBDA kv : kv[2].t = "str")

\* The strokes recorded for translation t, in encounter order.
StrokesOf(items, t) ==
    LET es == SelectSeq(StrEntries(items), LAMBDA kv : normalize_text(kv[2].s) = t)
    IN  [i \in DOMAIN es |-> es[i][1]]

\* What inverting the object gives: each normalized translation with the
\* strokes that map to it, in encounter order.
Inverted(items) ==
    [t \in { normalize_text(StrEntries(items)[i][2].s) : i \in DOMAIN StrEntries(items) }
        |-> StrokesOf(items, t)]

\* The call returned for an object of at least one entry.
LoadedObject ==
    /\ json_out # None
    /\ json_raw[1].t = "dict"
    /\ json_raw[1].items # <<>>

\* C10 (as claimed): an object of N >= 1 entries is inverted exactly when
\* stroke-shaped keys >= max(1, N/4) and string values >= max(1, 3N/4), the
\* quotients being the exact ones; inverted, each translation lists its
\* strokes in encounter order, and the two scenario dictionaries load alike.
C10_InvertedIffExactThresholds ==
    LoadedObject =>
        LET items == json_raw[1].items
            N == Len(items)
        IN  /\ json_out[1].inverted <=>
                   /\ 4 * key_strokeish(items) >= max(4, N)
                   /\ 4 * val_stringish(items) >= max(4, 3 * N)
            /\ json_out[1].inverted => json_out[1].value = Inverted(items)
            /\ json_raw[1] = ScenarioInverted =>
                   json_out[1].value = load_dictionary_json(ScenarioDirect).value

\* C10 (amended): an object of N >= 1 entries is inverted exactly when
\* stroke-shaped keys >= max(1, floor(N/4)) and string values >=
\* max(1, floor(3N/4)); inverted, each translation lists its strokes in
\* encounter order, and the two scenario dictionaries load alike.
C10_InvertedIffFloorThresholds ==
    LoadedObject =>
        LET items == json_raw[1].items
            N == Len(items)
        IN  /\ json_out[1].inverted <=>
                   /\ key_strokeish(items) >= max(1, N \div 4)
                   /\ val_stringish(items) >= max(1, (3 * N) \div 4)
            /\ json_out[1].inverted => json_out[1].value = Inverted(items)
            /\ json_raw[1] = ScenarioInverted =>
                   json_out[1].value = load_dictionary_json(ScenarioDirect).value

\* An object was inverted and two of its strokes went to one translation,
\* whose texts differed before normalization.
C10_Witness ==
    /\ LoadedObject
    /\ json_out[1].inverted
    /\ \E t \in DOMAIN json_out[1].value : Len(json_out[1].value[t]) = 2
    /\ \E i, j \in DOMAIN json_raw[1].items :
           /\ json_raw[1].items[i][2].t = "str"
           /\ json_raw[1].items[j][2].t = "str"
           /\ json_raw[1].items[i][2].s # json_raw[1].items[j][2].s
           /\ normalize_text(json_raw[1].items[i][2].s) =
                  normalize_text(json_raw[1].items[j][2].s)

\* A value the translation-keyed form accepts: a string or a list of strings.
Supported(v) ==
    \/ v.t = "str"
    \/ v.t = "list" /\ \A i \in DOMAIN v.items : v.items[i].t = "str"

\* The strokes a supported value stands for.
StrokesList(v) ==
    IF v.t = "str" THEN <<v.s>> ELSE [i \in DOMAIN v.items |-> v.items[i].s]

\* C11: an object not classified as stroke-keyed loads without failing as
\* the mapping whose keys are the normalized keys of the entries with a
\* supported value; a string value is a one-element list, a list of strings
\* keeps its order, any other entry is dropped (of two entries with one
\* normalized key the later supported one is kept).  The translation-keyed
\* scenario dictionary loads as {"message": ["PHEPBLG"], "cellular":
\* ["KREL/HRER"]}.
C11_DirectMapping ==
    (LoadedObject /\ ~json_out[1].inverted) =>
        LET items == json_raw[1].items
            out == json_out[1].value
            kept == { i \in DOMAIN items : Supported(items[i][2]) }
        IN  /\ json_out[1].ok
            /\ DOMAIN out = { normalize_text(items[i][1]) : i \in kept }
            /\ \A i \in kept :
                   (\A j \in kept : j > i =>
                        normalize_text(items[j][1]) # normalize_text(items[i][1]))
                   => out[normalize_text(items[i][1])] = StrokesList(items[i][2])
            /\ json_raw[1] = ScenarioDirect =>
                   out = (<<"m","e","s","s","a","g","e">> :>
                              << <<"P","H","E","P","B","L","G">> >>)
                         @@ (<<"c","e","l","l","u","l","a","r">> :>
                              << <<"K","R","E","L","/","H","R","E","R">> >>)

\* One object gave a wrapped string, a list of two strokes kept in order and
\* a dropped entry.
C11_Witness ==
    /\ LoadedObject
    /\ ~json_out[1].inverted
    /\ Cardinality(DOMAIN json_out[1].value) = 2
    /\ \E i, j, k \in DOMAIN json_raw[1].items :
           /\ json_raw[1].items[i][2].t = "str"
           /\ json_raw[1].items[j][2].t = "list"
           /\ Supported(json_raw[1].items[j][2])
           /\ Len(json_raw[1].items[j][2].items) = 2
           /\ ~Supported(json_raw[1].items[k][2])

-----------------------------------------------------------------------------
(* The word bank loader on its own: load_word_bank is called once on the  *)
(* lines of a file, with the session as __init__ leaves it.               *)

\* Lines as iterating a file yields them: with their newline, but for a
\* last line that has none.
LinePool ==
    { <<"a", "\n">>, <<" ", "b", " ", "\n">>, <<"#", "c", "\n">>, <<"\n">>,
      <<" ", "#", "\n">>, <<"a", "#", "\n">>, <<" ", "\t", "\n">>,
      <<"a", " ", " ", "b">> }

\* "cat\n# comment\n\ndog\n"
ScenarioBank ==
    << <<"c","a","t","\n">>,
       <<"#"," ","c","o","m","m","e","n","t","\n">>,
       <<"\n">>,
       <<"d","o","g","\n">> >>

BankInit ==
    /\ now = 1
    /\ InitFrom(_reset_session(Fresh(1)))
    /\ json_raw = None
    /\ json_out = None
    /\ \/ call_arg = Some(ScenarioBank)
       \/ \E n \in 0..MaxLines : \E lines \in [1..n -> LinePool] :
             call_arg = Some(lines)
    /\ call_ret = None

CallLoadWordBank ==
    /\ call_ret = None
    /\ call_ret' = Some(load_word_bank(call_arg[1]))
    /\ UNCHANGED <<appvars, now, last_event, occ_count, quote_exhausted,
                   json_raw, json_out, call_arg>>

BankNext == CallLoadWordBank

BankSpec == BankInit /\ [][BankNext]_vars

\* The line without its leading and trailing whitespace: what lies between
\* its first and its last character that is not whitespace.
Stripped(l) ==
    LET inked == { i \in DOMAIN l : l[i] \notin Whitespace }
    IN  IF inked = {} THEN <<>>
        ELSE SubSeq(l, CHOOSE i \in inked : \A j \in inked : i <= j,
                       CHOOSE i \in inked : \A j \in inked : i >= j)

\* The line gives a word: it is not blank and not a comment.
GivesWord(l) == Stripped(l) # <<>> /\ Stripped(l)[1] # "#"

\* C12: load_word_bank returns exactly the stripped lines that are not
\* empty and do not start with '#', in their order; the scenario file
\* "cat\n# comment\n\ndog\n" loads as ["cat", "dog"].
C12_BankIsKeptLinesInOrder ==
    call_ret # None =>
        LET kept == SelectSeq(call_arg[1], GivesWord)
        IN  /\ call_ret[1] = [i \in DOMAIN kept |-> Stripped(kept[i])]
            /\ call_arg[1] = ScenarioBank =>
                   call_ret[1] = << <<"c","a","t">>, <<"d","o","g">> >>

\* A file of three lines gave two words, one of them stripped of blanks on
\* both sides, and lost a line.
C12_Witness ==
    /\ call_ret # None
    /\ Len(call_arg[1]) = 3
    /\ Len(call_ret[1]) = 2
    /\ \E i \in DOMAIN call_arg[1] :
           /\ call_arg[1][i] = <<" ", "b", " ", "\n">>
           /\ <<"b">> \in Range(call_ret[1])
    /\ \E i \in DOMAIN call_arg[1] : call_arg[1][i] = <<" ", "#", "\n">>

-----------------------------------------------------------------------------
(* The tokenizer on its own: tokenize_source_text is called once on a     *)
(* text, with the session as __init__ leaves it.                          *)

TextChars == {" ", "\n", "a", ","}

TextInit ==
    /\ now = 1
    /\ InitFrom(_reset_session(Fresh(1)))
    /\ json_raw = None
    /\ json_out = None
    /\ \E n \in 0..MaxTextLen : \E text \in [1..n -> TextChars] :
          call_arg = Some(text)
    /\ call_ret = None

CallTokenizeSourceText ==
    /\ call_ret = None
    /\ call_ret' = Some(tokenize_source_text(call_arg[1]))
    /\ UNCHANGED <<appvars, now, last_event, occ_count, quote_exhausted,
                   json_raw, json_out, call_arg>>

TextNext == CallTokenizeSourceText

TextSpec == TextInit /\ [][TextNext]_vars

\* C14: the tokens of a text joined with single spaces are its normalized
\* text; a text that is empty or all whitespace has no tokens; no token is
\* empty or holds whitespace.
C14_JoinedTokensAreNormalized ==
    call_ret # None =>
        LET text == call_arg[1]
            tokens == call_ret[1]
        IN  /\ join(<<" ">>, tokens) = normalize_text(text)
            /\ (\A i \in DOMAIN text : text[i] \in Whitespace) => tokens = <<>>
            /\ \A i \in DOMAIN tokens :
                   /\ tokens[i] # <<>>
                   /\ \A j \in DOMAIN tokens[i] : tokens[i][j] \notin Whitespace

\* A text with blanks at both ends and a run of whitespace inside gave two
\* tokens, punctuation kept with its word.
C14_Witness ==
    /\ call_ret # None
    /\ call_arg[1] = <<" ", "a", ",", " ", "\n", "a">>
    /\ call_ret[1] = << <<"a", ",">>, <<"a">> >>

-----------------------------------------------------------------------------
(* More claims about the practice session *)

\* C13: in every reachable state the computed accuracy is an integer of
\* 0..100, and it is 0 when total_attempts is 0.
C13_AccuracyInRange ==
    /\ _compute_accuracy(Self(1)) \in 0..100
    /\ total_attempts = 0 => _compute_accuracy(Self(1)) = 0

\* Attempts were counted and the accuracy is computed from them.
C13_Witness ==
    /\ total_attempts = 2
    /\ correct_attempts = 2
    /\ streak = 0
    /\ _compute_accuracy(Self(1)) = 100

\* The last event was an advance of the Target: the one after a correct
\* attempt, or a manual skip.
Advanced == Correct(last_event) \/ last_event[1] = "on_next_word"

\* The source has no further Target to give: the quote is at its last token
\* or has none, or the bank is empty.
SourceAtEnd ==
    \/ source_mode = "quote_seq" /\ quote_idx >= Len(quote_tokens) - 1
    \/ source_mode = "bank_random" /\ word_bank = <<>>

C16_NoMatchChangesNothing ==
    [][(/\ last_event'[1] = "on_text_change"
        /\ \E t \in TypedTexts : ~Matches(t) /\ TextChangeStep(t))
          => UNCHANGED <<total_attempts, correct_attempts, total_correct_chars,
                         streak, best_streak, current_word, quote_idx,
                         source_mode, _pending_advance, quote_tokens,
                         word_bank, session_started_at>>]_vars

\* A mismatch was typed against the Target with a streak running.
C16_Witness ==
    /\ last_event = <<"on_text_change", "done">>
    /\ current_word = Some(<<"a">>)
    /\ var_input = <<"b">>
    /\ streak > 0
    /\ total_attempts > 0

\* C17 (as claimed): after a reset a Target is active if a non-empty bank
\* is loaded or quote mode is selected with tokens, and the reset does not
\* leave quote mode for bank mode.
C17_ResetRestartsFromSource ==
    [][last_event'[1] = "_reset_session" =>
          /\ (\/ word_bank # <<>>
              \/ source_mode = "quote_seq" /\ quote_tokens # <<>>)
                 => current_word' # None
          /\ source_mode = "quote_seq" => source_mode' = "quote_seq"]_vars

\* The cursor is at the last token of the quote.
AtLastToken ==
    /\ source_mode = "quote_seq"
    /\ quote_tokens # <<>>
    /\ quote_idx = Len(quote_tokens) - 1

\* C19: at the last token a manual skip changes nothing but the streak,
\* which becomes 0, while the advance after a correct attempt sets the
\* Target to none and marks the quote complete with the cursor where it was.
C19_EndOfQuoteSkipAndAdvanceDiffer ==
    [][AtLastToken =>
          /\ last_event'[1] = "on_next_word" =>
                 /\ streak' = 0
                 /\ UNCHANGED <<current_word, quote_idx, quote_exhausted,
                                quote_tokens, source_mode, var_input,
                                total_attempts, correct_attempts,
                                total_correct_chars, best_streak,
                                session_started_at>>
          /\ Correct(last_event') =>
                 /\ current_word' = None
                 /\ quote_exhausted'
                 /\ quote_idx' = quote_idx
                 /\ UNCHANGED <<quote_tokens, source_mode>>]_vars

\* A quote of two tokens was typed to its end, with a skip at the last
\* token on the way.
C19_Witness ==
    /\ Correct(last_event)
    /\ quote_exhausted
    /\ source_mode = "quote_seq"
    /\ current_word = None
    /\ Len(quote_tokens) = 2
    /\ quote_idx = 1
    /\ total_attempts = 2
    /\ streak = 1
    /\ best_streak = 1

\* C20 (as claimed): whenever a Target is active the session clock has been
\* started.
C20_ClockRunsWithTarget ==
    current_word # None => session_started_at # None

\* C18 (as claimed): once session_started_at is set, no event other than a
\* session reset changes it.
C18_ClockSetOnce ==
    [][(session_started_at # None /\ last_event'[1] # "_reset_session")
          => session_started_at' = session_started_at]_vars

\* C21 (as claimed): in bank mode an active Target is a member of the
\* loaded word bank.
C21_BankTargetInBank ==
    (source_mode = "bank_random" /\ current_word # None)
        => current_word[1] \in Range(word_bank)

\* C22: in quote mode an active Target is the token at the cursor, and the
\* cursor is within the token sequence.
C22_QuoteTargetAtCursor ==
    (source_mode = "quote_seq" /\ current_word # None) =>
        /\ 0 <= quote_idx
        /\ quote_idx < Len(quote_tokens)
        /\ current_word[1] = quote_tokens[quote_idx + 1]

\* A correct attempt moved the Target to the second token, with a bank
\* loaded beside the quote.
C22_Witness ==
    /\ source_mode = "quote_seq"
    /\ word_bank # <<>>
    /\ Len(quote_tokens) = 2
    /\ quote_idx = 1
    /\ current_word = Some(quote_tokens[2])
    /\ Correct(last_event)

\* C23: total_attempts equals correct_attempts in every reachable state, so
\* the accuracy is 0 or 100.
C23_AttemptsAreCorrectAttempts ==
    /\ total_attempts = correct_attempts
    /\ _compute_accuracy(Self(1)) \in {0, 100}

\* A mismatch was submitted with <Return> after two counted attempts.
C23_Witness ==
    /\ last_event = <<"on_submit", "done">>
    /\ current_word = Some(<<"a">>)
    /\ var_input = <<"b">>
    /\ total_attempts = 2
    /\ _compute_accuracy(Self(1)) = 100

\* C24: Pending-Advance is false at the end of every event handler.
C24_PendingAdvanceFalseAtRest == ~_pending_advance

\* A correct attempt was counted and the Target was not replaced.
C24_Witness ==
    /\ Correct(last_event)
    /\ source_mode = "bank_random"
    /\ word_bank = <<>>
    /\ current_word # None
    /\ var_input # <<>>
    /\ ~_pending_advance

====
